---- MODULE Spec2Model ----
(***************************************************************************)
(* LyricSync Pro: the LRC timestamp index, the playback synchroniser and   *)
(* the scroll coupling of MainWindow (src/lyricsync_pro/app.py), with the  *)
(* document operations that change the editable text.                      *)
(*                                                                         *)
(* Texts are sequences of one-character strings, as Python's str is a      *)
(* sequence of characters.  Times are integer milliseconds: the player     *)
(* reports milliseconds, and every tag the grammar admits is a whole       *)
(* number of milliseconds.  (The code compares the doubles mm*60+ss+f and  *)
(* pos_ms/1000.0; the two agree with the millisecond comparison except     *)
(* where the two roundings of one and the same millisecond value differ.)  *)
(***************************************************************************)
EXTENDS Integers, Sequences, FiniteSets, TLC

(***************************************************************************)
(* Bounds of the model.                                                    *)
(***************************************************************************)
MaxLines == 2        \* lines of a text typed into the editable view
MaxStampLen == 0     \* stamping is tried on texts of at most this length
MaxClock == 1        \* seconds the wall clock may advance
MaxSaves == 2        \* snapshots written in one run
MaxNest == 3         \* depth to which nested scroll notifications are followed
LineH == 2           \* pixel height of a laid out line
ViewH == 3           \* pixel height of a view's viewport

(***************************************************************************)
(* Characters and small helpers.                                           *)
(***************************************************************************)
NL == "\n"
Digits == {"0", "1", "2", "3", "4", "5", "6", "7", "8", "9"}
DigitSeq == <<"0", "1", "2", "3", "4", "5", "6", "7", "8", "9">>

\* int() of one decimal digit
DigitVal(c) == CHOOSE v \in 0..9 : DigitSeq[v + 1] = c

Min(a, b) == IF a <= b THEN a ELSE b
Max(a, b) == IF a >= b THEN a ELSE b

\* Python's int() of a number given as num/den with den > 0: truncation to zero
IntTrunc(num, den) == IF num >= 0 THEN num \div den ELSE -((-num) \div den)

\* "\n".join(lines)
RECURSIVE JoinLines(_)
JoinLines(ls) ==
    IF ls = <<>> THEN <<>>
    ELSE IF Len(ls) = 1 THEN ls[1]
    ELSE ls[1] \o <<NL>> \o JoinLines(Tail(ls))

\* str.splitlines(): lines end at a line break, and a final line break opens
\* no further (empty) line
RECURSIVE SplitFrom(_, _, _)
SplitFrom(text, i, cur) ==
    IF i > Len(text) THEN (IF cur = <<>> THEN <<>> ELSE <<cur>>)
    ELSE IF text[i] = NL THEN <<cur>> \o SplitFrom(text, i + 1, <<>>)
    ELSE SplitFrom(text, i + 1, Append(cur, text[i]))

SplitLines(text) == SplitFrom(text, 1, <<>>)

\* QTextDocument.blockCount(): one block, plus one per line break
BlockCount(text) == 1 + Cardinality({i \in 1..Len(text) : text[i] = NL})

(***************************************************************************)
(* The tag grammar \[(\d{1,2}):(\d{2})(?:\.(\d{1,3}))?\] and the offset    *)
(* computed from a match (rebuild_lrc_index, lines 803-815).               *)
(***************************************************************************)
NoMatch == -1

CharAt(line, i) == IF i >= 1 /\ i <= Len(line) THEN line[i] ELSE ""
IsDigitAt(line, i) == CharAt(line, i) \in Digits
NumAt(line, i, n) ==
    IF n = 1 THEN DigitVal(line[i])
    ELSE IF n = 2 THEN 10 * DigitVal(line[i]) + DigitVal(line[i + 1])
    ELSE 100 * DigitVal(line[i]) + 10 * DigitVal(line[i + 1]) + DigitVal(line[i + 2])

\* number of digits of the minutes group of a match that starts at p, 0 if none
MinutesLen(line, p) ==
    IF CharAt(line, p) # "[" \/ ~IsDigitAt(line, p + 1) THEN 0
    ELSE IF CharAt(line, p + 2) = ":" THEN 1
    ELSE IF IsDigitAt(line, p + 2) /\ CharAt(line, p + 3) = ":" THEN 2
    ELSE 0

\* number of digits of the fraction group that starts after the dot at r:
\* 1 to 3 digits with the closing bracket right after them, 0 if none
FractionLen(line, r) ==
    IF ~IsDigitAt(line, r + 1) THEN 0
    ELSE IF CharAt(line, r + 2) = "]" THEN 1
    ELSE IF ~IsDigitAt(line, r + 2) THEN 0
    ELSE IF CharAt(line, r + 3) = "]" THEN 2
    ELSE IF ~IsDigitAt(line, r + 3) THEN 0
    ELSE IF CharAt(line, r + 4) = "]" THEN 3
    ELSE 0

\* the digits of a fraction read as milliseconds whatever their number
FracMsPlain(line, i, n) == NumAt(line, i, n)

\* frac_sec in milliseconds for a fraction of n digits at i (lines 806-814)
FracMs(line, i, n) ==
    IF n = 1 THEN NumAt(line, i, 1) * 100
    ELSE IF n = 2 THEN NumAt(line, i, 2) * 10
    ELSE NumAt(line, i, 3)

\* a grammar that admits seconds up to 59 only
TagAtSecondsBelow60(line, p) ==
    LET ml == MinutesLen(line, p)
        q == p + 1 + ml
        r == q + 3
    IN  IF ml = 0 \/ ~IsDigitAt(line, q + 1) \/ ~IsDigitAt(line, q + 2) THEN NoMatch
        ELSE IF NumAt(line, q + 1, 2) >= 60 THEN NoMatch
        ELSE LET base == NumAt(line, p + 1, ml) * 60000 + NumAt(line, q + 1, 2) * 1000
             IN  IF CharAt(line, r) = "]" THEN base
                 ELSE IF CharAt(line, r) = "." /\ FractionLen(line, r) > 0
                      THEN base + FracMs(line, r + 1, FractionLen(line, r))
                 ELSE NoMatch

\* the offset, in ms, of the tag matched at position p of line, or NoMatch
TagAt(line, p) ==
    LET ml == MinutesLen(line, p)
        q == p + 1 + ml          \* the colon
        r == q + 3               \* what follows the seconds
    IN  IF ml = 0 \/ ~IsDigitAt(line, q + 1) \/ ~IsDigitAt(line, q + 2) THEN NoMatch
        ELSE LET base == NumAt(line, p + 1, ml) * 60000 + NumAt(line, q + 1, 2) * 1000
             IN  IF CharAt(line, r) = "]" THEN base
                 ELSE IF CharAt(line, r) = "." /\ FractionLen(line, r) > 0
                      THEN base + FracMs(line, r + 1, FractionLen(line, r))
                 ELSE NoMatch

\* the last tag of a line instead of the first
LastTag(line) ==
    LET hits == {p \in 1..Len(line) : TagAt(line, p) # NoMatch}
    IN  IF hits = {} THEN NoMatch
        ELSE TagAt(line, CHOOSE p \in hits : \A o \in hits : p >= o)

\* re.finditer ... break: the leftmost match of the line
FirstTag(line) ==
    LET hits == {p \in 1..Len(line) : TagAt(line, p) # NoMatch}
    IN  IF hits = {} THEN NoMatch
        ELSE TagAt(line, CHOOSE p \in hits : \A o \in hits : p <= o)

(***************************************************************************)
(* The index: rebuild_lrc_index (lines 798-818) and the scan of            *)
(* update_lrc_highlight (lines 824-830).  An entry is <<offset, line>>,    *)
(* the line counted from 0 as enumerate() counts it.                       *)
(***************************************************************************)
\* a line with no match entered at offset 0
RECURSIVE CollectZeroForMissing(_, _)
CollectZeroForMissing(lines, i) ==
    IF i > Len(lines) THEN <<>>
    ELSE << <<Max(0, FirstTag(lines[i])), i - 1>> >> \o CollectZeroForMissing(lines, i + 1)

RECURSIVE Collect(_, _)
Collect(lines, i) ==
    IF i > Len(lines) THEN <<>>
    ELSE (IF FirstTag(lines[i]) = NoMatch THEN <<>>
          ELSE << <<FirstTag(lines[i]), i - 1>> >>) \o Collect(lines, i + 1)

\* the key of list.sort(key=lambda x: x[0])
SortKeyNone(e) == 0
SortKey(e) == e[1]

\* an entry put before the entries of equal key
RECURSIVE InsertSortedBeforeEqual(_, _)
InsertSortedBeforeEqual(s, e) ==
    IF s = <<>> THEN <<e>>
    ELSE IF SortKey(s[Len(s)]) < SortKey(e) THEN Append(s, e)
    ELSE Append(InsertSortedBeforeEqual(SubSeq(s, 1, Len(s) - 1), e), s[Len(s)])

\* list.sort is stable: an entry goes behind every entry whose key is not greater
RECURSIVE InsertSorted(_, _)
InsertSorted(s, e) ==
    IF s = <<>> THEN <<e>>
    ELSE IF SortKey(s[Len(s)]) <= SortKey(e) THEN Append(s, e)
    ELSE Append(InsertSorted(SubSeq(s, 1, Len(s) - 1), e), s[Len(s)])

RECURSIVE SortByKey(_, _)
SortByKey(done, rest) ==
    IF rest = <<>> THEN done
    ELSE SortByKey(InsertSorted(done, Head(rest)), Tail(rest))

\* the value of self._lrc_index after rebuild_lrc_index() on the given text
RebuildLrcIndex(text) == SortByKey(<<>>, Collect(SplitLines(text), 1))

\* the loop of lines 824-829; idx starts at 0 (here 1: sequences count from 1)
RECURSIVE ScanIdxStrict(_, _, _, _)
ScanIdxStrict(index, current, j, idx) ==
    IF j > Len(index) THEN idx
    ELSE IF index[j][1] < current THEN ScanIdxStrict(index, current, j + 1, j)
    ELSE idx

RECURSIVE ScanIdx(_, _, _, _)
ScanIdx(index, current, j, idx) ==
    IF j > Len(index) THEN idx
    ELSE IF index[j][1] <= current THEN ScanIdx(index, current, j + 1, j)
    ELSE idx

\* line_no of line 830, for a non-empty index
ResolveLine(index, current) == index[ScanIdx(index, current, 1, 1)][2]

(***************************************************************************)
(* The two views and their layout.  Every line is LineH pixels high and    *)
(* the viewport ViewH pixels; a scroll bar runs from 0 to ScrollMax.       *)
(***************************************************************************)
Views == {"editor_original", "editor"}
Other(v) == IF v = "editor" THEN "editor_original" ELSE "editor"

TopProbe == 1        \* QPoint(0, 1)

ScrollMax(text) == Max(0, BlockCount(text) * LineH - ViewH)

\* src.cursorForPosition(QPoint(0, 1)).blockNumber() at scroll value v
TopLine(text, v) == Min((v + TopProbe) \div LineH, BlockCount(text) - 1)

\* the value _scroll_editor_view_to_line passes to setValue (lines 868-880)
ScrollValue(text, line, align) ==
    LET top == line * LineH
        y2 == IF align = "center" THEN 2 * top - (ViewH - LineH)
              ELSE IF align = "bottom" THEN 2 * top - 2 * (ViewH - LineH)
              ELSE 2 * top
    IN  Max(0, Min(IntTrunc(y2, 2), ScrollMax(text)))

NoCmd == <<>>

(***************************************************************************)
(* The scroll coupling.  st is the part of the window a scroll handler     *)
(* reads and writes: scroll (the two scroll bar values), lock              *)
(* (_sync_lock), and what the handler has done so far: cmd (per view, the  *)
(* <<line, align>> last handed to setValue), mirrors (bodies of            *)
(* _sync_scroll_from run) and ignored (calls of it that returned at the    *)
(* guard).  setValue emits valueChanged when the value changes, and the    *)
(* signal runs the connected _sync_scroll_from before setValue returns.    *)
(***************************************************************************)
\* the guard of lines 890-891
SyncScrollNeverIgnored(lock) == FALSE
SyncScrollIgnored(lock) == lock

\* the finally of lines 903-904 (and 860-861); raised: the body raised
ReleaseLockUnlessRaised(st, raised) == IF raised THEN st ELSE [st EXCEPT !.lock = FALSE]
ReleaseLock(st, raised) == [st EXCEPT !.lock = FALSE]

\* the clamp of line 900
ClampLineNone(bn, blocks) == bn
ClampLine(bn, blocks) == Max(0, Min(bn, blocks - 1))

RECURSIVE SyncScrollFrom(_, _, _, _, _, _)
RECURSIVE SetValue(_, _, _, _, _)

\* _scroll_editor_view_to_line; raises: something in its try block raised
ScrollEditorViewToLine(st, docs, view, line, align, raises, fuel) ==
    IF raises \/ line < 0 \/ line >= BlockCount(docs[view]) THEN st
    ELSE SetValue([st EXCEPT !.cmd[view] = <<line, align>>], docs, view,
                  ScrollValue(docs[view], line, align), fuel)

\* sb.setValue(v), with the valueChanged connections of lines 227-228
SetValue(st, docs, view, v, fuel) ==
    IF v = st.scroll[view] THEN st
    ELSE IF fuel = 0 THEN [st EXCEPT !.scroll[view] = v]
    ELSE SyncScrollFrom([st EXCEPT !.scroll[view] = v], docs, view, Other(view),
                        FALSE, fuel - 1)

\* _sync_scroll_from(src, dst); raises: the body raised before scrolling dst
SyncScrollFrom(st, docs, src, dst, raises, fuel) ==
    IF SyncScrollIgnored(st.lock) THEN [st EXCEPT !.ignored = Min(@ + 1, MaxNest)]
    ELSE LET st1 == [st EXCEPT !.lock = TRUE, !.mirrors = Min(@ + 1, MaxNest)]
             bn == ClampLine(TopLine(docs[src], st1.scroll[src]), BlockCount(docs[dst]))
             st2 == IF raises THEN st1
                    ELSE ScrollEditorViewToLine(st1, docs, dst, bn, "top", FALSE, fuel)
         IN  ReleaseLock(st2, raises)

\* _scroll_both_to_line(line_no); r1, r2: the adjustment of the view raised
ScrollBothToLine(st, docs, line, r1, r2) ==
    IF st.lock THEN st
    ELSE LET st1 == [st EXCEPT !.lock = TRUE]
             st2 == ScrollEditorViewToLine(st1, docs, "editor_original", line, "center",
                                           r1, MaxNest)
             st3 == ScrollEditorViewToLine(st2, docs, "editor", line, "center", r2, MaxNest)
         IN  ReleaseLock(st3, FALSE)

\* _apply_line_highlight: sel maps a view to the line of its extra selection
ApplyLineHighlight(sel, docs, view, line) ==
    IF line < 0 \/ line >= BlockCount(docs[view]) THEN sel
    ELSE [sel EXCEPT ![view] = line]

(***************************************************************************)
(* Formatting: f"{n:02d}", f"{n:03d}" and the tag written by               *)
(* insert_timestamp_line (lines 728-739).                                  *)
(***************************************************************************)
RECURSIVE DecDigits(_)
DecDigits(n) ==
    IF n < 10 THEN <<DigitSeq[n + 1]>>
    ELSE Append(DecDigits(n \div 10), DigitSeq[(n % 10) + 1])

\* f"{n:0<w>d}": at least w digits
ZeroPad(n, w) ==
    IF Len(DecDigits(n)) >= w THEN DecDigits(n)
    ELSE [i \in 1..(w - Len(DecDigits(n))) |-> "0"] \o DecDigits(n)

\* the tag for the player position pos_ms; ms is round((sec - int(sec)) * 1000)
StampTag(pos_ms) ==
    LET sec == Max(0, pos_ms)
        mm0 == sec \div 60000
        ss0 == (sec \div 1000) % 60
        ms0 == sec % 1000
        ms == IF ms0 >= 1000 THEN ms0 - 1000 ELSE ms0
        ss1 == IF ms0 >= 1000 THEN ss0 + 1 ELSE ss0
        ss == IF ss1 >= 60 THEN ss1 - 60 ELSE ss1
        mm == IF ss1 >= 60 THEN mm0 + 1 ELSE mm0
    IN  <<"[">> \o ZeroPad(mm, 2) \o <<":">> \o ZeroPad(ss, 2) \o <<".">>
              \o ZeroPad(ms, 3) \o <<"]">>

\* cursor.insertText(tag); cursor.insertBlock() with the caret behind k characters
InsertAtCaret(text, k, tag) ==
    SubSeq(text, 1, k) \o tag \o <<NL>> \o SubSeq(text, k + 1, Len(text))

(***************************************************************************)
(* The header of a downloaded lyric (downloader.py, lines 11-17, 145-156). *)
(***************************************************************************)
NoDuration == -1

\* _format_mmss_cc of a duration given in ms
FormatMmssCc(dur_ms) ==
    LET s == dur_ms \div 1000
        ms == dur_ms % 1000
        cc == IF ms # 0 THEN ms \div 10 ELSE 0
    IN  ZeroPad(s \div 60, 2) \o <<":">> \o ZeroPad(s % 60, 2) \o <<".">> \o ZeroPad(cc, 2)

TagId3 == <<"i", "d", "3">>
TagFuzzy == <<"f", "u", "z", "z", "y">>

BuildLrcHeader(title, artist, length_ms, match_tag) ==
    JoinLines(
        (IF title # <<>> THEN << <<"[", "t", "i", ":">> \o title \o <<"]">> >> ELSE <<>>)
     \o (IF artist # <<>> THEN << <<"[", "a", "r", ":">> \o artist \o <<"]">> >> ELSE <<>>)
     \o (IF length_ms # NoDuration
         THEN << <<"[", "l", "e", "n", "g", "t", "h", ":">> \o FormatMmssCc(length_ms)
                    \o <<"]">> >>
         ELSE <<>>)
     \o << <<"[", "b", "y", ":", "L", "y", "r", "i", "c", "S", "y", "n", "c", " ",
             "P", "r", "o", "]">> >>
     \o << <<"[", "m", "a", "t", "c", "h", ":">> \o match_tag \o <<"]">> >>)

(***************************************************************************)
(* The inputs the model draws from.                                        *)
(***************************************************************************)
LnA == <<"[", "0", "0", ":", "0", "1", ".", "5", "]", "a">>
LnB == <<"[", "0", ":", "0", "3", "]", "b">>
LnC == <<"[", "0", ":", "0", "1", "]", "c">>
LnX == <<"x">>
PoolLines == {LnA, LnB, LnX}

\* the texts typing can leave in the editable view
TypedTexts == {JoinLines(ls) : ls \in UNION {[1..n -> PoolLines] : n \in 0..MaxLines}}

\* the few texts typed in the run of the document operations
FewTexts == {<<>>, LnC, JoinLines(<<LnB, LnA>>)}

\* the positions the player reports, in ms
PosSet == {500, 2000, 3000}

\* the audio files of the folder; "a" has a lyric file beside it, "b" has none
Audio == {"a", "b"}
NoAudio == "none"
InitialLrc == [a \in {"a"} |-> JoinLines(<<LnB, LnC, LnX>>)]

\* what extract_metadata reads from an audio file
Meta(a) ==
    IF a = "a" THEN [title |-> <<"T">>, artist |-> <<>>, duration |-> NoDuration,
                     fuzzy |-> FALSE]
    ELSE [title |-> <<"U">>, artist |-> <<"A">>, duration |-> 61500, fuzzy |-> TRUE]

\* what the lyric service returns for the chosen song
NoLyric == <<>>
Lyrics == {NoLyric, JoinLines(<<LnC, LnA>>)}

(***************************************************************************)
(* The state of the window (lines 254-265), of the player, of the folder   *)
(* and of the snapshot store.                                              *)
(***************************************************************************)
VARIABLES
    editor,            \* text of the editable view
    editor_original,   \* text of the original (read-only) view
    lrc_index,         \* self._lrc_index
    current_line_no,   \* self._current_line_no
    sync_lock,         \* self._sync_lock
    scroll,            \* value of each view's vertical scroll bar
    extra_sel,         \* line of each view's extra selection (highlight), -1: none
    position,          \* the position the player last reported, in ms
    current_audio,     \* self.current_audio; current_lrc_path is the .lrc beside it
    lrc_file,          \* the .lrc files of the folder: audio file -> text
    snapshots,         \* the snapshot folder: <<stem, timestamp>> -> snapshot
    clock,             \* datetime.now(), in seconds
    saves,             \* calls of save_snapshot so far
    rebuild,           \* where a running rebuild_lrc_index stands
    playing,           \* the player's playbackState() is PlayingState
    download,          \* where a running download_lyric_auto stands
    current_dir,       \* self.current_dir
    threads,           \* the ScanThreads started so far; self.thread is the last
    pending,           \* results emitted and not yet delivered to on_scan_result
    status_message,    \* what the status bar shows
    progress,          \* the progress bar is visible
    aborted,           \* the process has been aborted
    last               \* what the handler that ran last did

vars == <<editor, editor_original, lrc_index, current_line_no, sync_lock, scroll,
          extra_sel, position, current_audio, lrc_file, snapshots, clock, saves, rebuild,
          playing, download, current_dir, threads, pending, status_message, progress,
          aborted, last>>

\* the folder, the scans and the status bar
scan_state == <<current_dir, threads, pending, status_message, progress, aborted>>

NoDir == "none"
NoMessage == [kind |-> "none", n |-> 0]

\* lines 255 and 538: no folder chosen, no scan started
NoScan ==
    /\ current_dir = NoDir
    /\ threads = <<>>
    /\ pending = <<>>
    /\ status_message = NoMessage
    /\ progress = FALSE
    /\ aborted = FALSE

NoLine == -1

\* no rebuild_lrc_index is running: pc says where a rebuild stands ("scan":
\* in the loop of lines 801-816, i lines done), prev is the index the rebuild
\* found when it began
Idle == [pc |-> "idle", i |-> 0, prev |-> <<>>]

\* no download_lyric_auto is running: pc says where a download stands
\* ("events": in QApplication.processEvents() of line 602), audio and meta
\* are the file it was invoked for and the metadata it read from it (line 595)
NotDownloading == [pc |-> "idle", audio |-> NoAudio, meta |-> <<>>]

Docs == [editor_original |-> editor_original, editor |-> editor]
DocsWith(orig, edit) == [editor_original |-> orig, editor |-> edit]

\* the scroll state a handler starts from
Start == [scroll |-> scroll, lock |-> sync_lock, cmd |-> [v \in Views |-> NoCmd],
          mirrors |-> 0, ignored |-> 0]

\* the record of a handler that issued no highlight and no scroll command
Did(op) == [op |-> op, resolved |-> NoLine, changed |-> FALSE,
            cmd |-> [v \in Views |-> NoCmd], hl |-> {}, mirrors |-> 0, ignored |-> 0,
            raised |-> {}, src |-> "none", top |-> NoLine, val |-> NoLine]

DidScroll(op, st) == [Did(op) EXCEPT !.cmd = st.cmd, !.mirrors = st.mirrors,
                                     !.ignored = st.ignored]

Init ==
    /\ editor = <<>>
    /\ editor_original = <<>>
    /\ lrc_index = <<>>
    /\ current_line_no = NoLine
    /\ sync_lock = FALSE
    /\ scroll = [v \in Views |-> 0]
    /\ extra_sel = [v \in Views |-> NoLine]
    /\ position = 0
    /\ current_audio = NoAudio
    /\ lrc_file = InitialLrc
    /\ snapshots = <<>>
    /\ clock = 0
    /\ saves = 0
    /\ rebuild = Idle
    /\ playing = FALSE
    /\ download = NotDownloading
    /\ NoScan
    /\ last = Did("init")

(***************************************************************************)
(* What Qt does when a view's text changes.  A scroll bar whose value      *)
(* falls outside the new range is set to the nearest value in it, and      *)
(* setPlainText lays the document out with the scroll bar at 0; both go    *)
(* through setValue and so through the valueChanged connections.           *)
(***************************************************************************)
Relayout(st, docs, view) ==
    IF st.scroll[view] > ScrollMax(docs[view])
    THEN SetValue(st, docs, view, ScrollMax(docs[view]), MaxNest)
    ELSE st

\* editor_original.setPlainText(content); editor.setPlainText(content)
SetPlainTextBoth(st, content) ==
    LET st1 == SetValue(st, DocsWith(content, editor), "editor_original", 0, MaxNest)
    IN  SetValue(st1, DocsWith(content, content), "editor", 0, MaxNest)

\* the connection editor.textChanged -> rebuild_lrc_index (line 272): the index
\* after the editable view's text has become text
OnTextChangedStale(text, index) == index
OnTextChanged(text, index) == RebuildLrcIndex(text)

(***************************************************************************)
(* Typing: the user replaces the text of the editable view by another      *)
(* one; the edit emits textChanged.                                        *)
(***************************************************************************)
TypeTextFrom(pool) ==
    \E t \in pool :
        /\ t # editor
        /\ editor' = t
        /\ lrc_index' = OnTextChanged(t, lrc_index)
        /\ LET st == Relayout(Start, DocsWith(editor_original, t), "editor")
           IN  /\ scroll' = st.scroll
               /\ sync_lock' = st.lock
               /\ last' = DidScroll("type", st)
        /\ UNCHANGED <<editor_original, current_line_no, extra_sel, position,
                       current_audio, lrc_file, snapshots, clock, saves, rebuild,
                       playing, download, scan_state>>

\* typing in the full run, and in the run of the document operations
TypeText == TypeTextFrom(TypedTexts)
TypeFew == TypeTextFrom(FewTexts)

(***************************************************************************)
(* on_position_changed (lines 773-777) with update_lrc_highlight           *)
(* (lines 820-837).                                                        *)
(***************************************************************************)
\* the test of line 831
NeedsUpdateAlways(line_no, cur) == TRUE
NeedsUpdate(line_no, cur) == line_no # cur

\* lines 835-837: the highlight of the editable, then of the original view
HighlightEditorOnly(sel, docs, line) == ApplyLineHighlight(sel, docs, "editor", line)
HighlightBoth(sel, docs, line) ==
    ApplyLineHighlight(ApplyLineHighlight(sel, docs, "editor", line),
                       docs, "editor_original", line)

\* the views _apply_line_highlight finds the line in
HasLine(docs, line) == {v \in Views : line >= 0 /\ line < BlockCount(docs[v])}

OnPositionChanged ==
    \E p \in PosSet :
        /\ position' = p
        /\ IF lrc_index = <<>>
           THEN /\ last' = Did("position")
                /\ UNCHANGED <<current_line_no, scroll, sync_lock, extra_sel>>
           ELSE LET line == ResolveLine(lrc_index, p)
                IN  IF ~NeedsUpdate(line, current_line_no)
                    THEN /\ last' = [Did("position") EXCEPT !.resolved = line]
                         /\ UNCHANGED <<current_line_no, scroll, sync_lock, extra_sel>>
                    ELSE \E r1, r2 \in BOOLEAN :
                         LET st == ScrollBothToLine(Start, Docs, line, r1, r2)
                         IN  /\ current_line_no' = line
                             /\ scroll' = st.scroll
                             /\ sync_lock' = st.lock
                             /\ extra_sel' = HighlightBoth(extra_sel, Docs, line)
                             /\ last' = [DidScroll("position", st) EXCEPT
                                            !.resolved = line,
                                            !.changed = TRUE,
                                            !.hl = HasLine(Docs, line),
                                            !.raised = (IF r1 THEN {"editor_original"} ELSE {})
                                                \cup (IF r2 THEN {"editor"} ELSE {})]
        /\ UNCHANGED <<editor, editor_original, lrc_index, current_audio, lrc_file,
                       snapshots, clock, saves, rebuild, playing, download,
                   scan_state>>

(***************************************************************************)
(* The user moves the scroll bar of a view (wheel, drag); valueChanged     *)
(* runs _sync_scroll_from (lines 227-228, 889-904).                        *)
(***************************************************************************)
UserScroll ==
    \E v \in Views, raises \in BOOLEAN :
        \E val \in 0..ScrollMax(Docs[v]) :
            /\ val # scroll[v]
            /\ LET st == SyncScrollFrom([Start EXCEPT !.scroll[v] = val], Docs, v,
                                        Other(v), raises, MaxNest)
               IN  /\ scroll' = st.scroll
                   /\ sync_lock' = st.lock
                   /\ last' = [DidScroll("scroll", st) EXCEPT
                                  !.src = v,
                                  !.top = TopLine(Docs[v], val),
                                  !.val = val,
                                  !.raised = IF raises THEN {Other(v)} ELSE {}]
            /\ UNCHANGED <<editor, editor_original, lrc_index, current_line_no, extra_sel,
                           position, current_audio, lrc_file, snapshots, clock, saves,
                           rebuild, playing, download, scan_state>>

(***************************************************************************)
(* The snapshot store (storage.py).  A snapshot file is named by the stem  *)
(* of the lyric file and the time to the second; the caret position kept   *)
(* in a snapshot is not modelled.                                          *)
(***************************************************************************)
\* current_lrc_path.name, and Path(filename).stem, for the lyric file of an audio file
LrcName(a) == a
Stem(filename) == filename

\* a save_snapshot that writes nothing
SaveSnapshotDropped(store, filename, content, now) == store

SaveSnapshot(store, filename, content, now) ==
    (<<Stem(filename), now>> :> [timestamp |-> now, filename |-> filename,
                                 content |-> content]) @@ store

\* current_lrc_path.write_text(text)
WriteText(files, a, text) == (a :> text) @@ files

(***************************************************************************)
(* load_audio (lines 564-589), reached from on_tree_selection_changed.     *)
(***************************************************************************)
\* the index load_audio leaves: rebuilt from the lyric file (line 585), or
\* emptied if there is none (line 589)
IndexAfterLoadKept(has_lrc, content, index) ==
    IF has_lrc THEN RebuildLrcIndex(content) ELSE index
IndexAfterLoad(has_lrc, content, index) ==
    IF has_lrc THEN RebuildLrcIndex(content) ELSE <<>>

LoadAudio ==
    \E a \in Audio :
        LET content == IF a \in DOMAIN lrc_file THEN lrc_file[a] ELSE <<>>
            st == SetPlainTextBoth(Start, content)
        IN  /\ current_audio' = a
            /\ editor_original' = content
            /\ editor' = content
            \* textChanged has rebuilt the index; line 585 rebuilds it, line 589 empties it
            /\ lrc_index' = IndexAfterLoad(a \in DOMAIN lrc_file, content, lrc_index)
            /\ scroll' = st.scroll
            /\ sync_lock' = st.lock
            \* the record keeps whether the views held another text before
            /\ last' = [fresh |-> content # editor] @@ DidScroll("load", st)
            \* player.setSource (line 569) stops the player
            /\ playing' = FALSE
            /\ UNCHANGED <<current_line_no, extra_sel, position, lrc_file, snapshots,
                           clock, saves, rebuild, download, scan_state>>

(***************************************************************************)
(* insert_timestamp_line (lines 725-745).  The caret is where the user     *)
(* put it: at the start or the end of a line.                              *)
(***************************************************************************)
Carets(text) ==
    {k \in 0..Len(text) : k = 0 \/ k = Len(text) \/ text[k] = NL \/ text[k + 1] = NL}

InsertTimestampLine ==
    IF current_audio = NoAudio
    THEN /\ last' = Did("stamp")
         /\ UNCHANGED <<editor, editor_original, lrc_index, current_line_no, sync_lock,
                        scroll, extra_sel, position, current_audio, lrc_file, snapshots,
                        clock, saves, rebuild, playing, download, scan_state>>
    ELSE /\ Len(editor) <= MaxStampLen
         /\ \E k \in Carets(editor) :
                LET text == InsertAtCaret(editor, k, StampTag(position))
                IN  /\ editor' = text
                    \* textChanged, then line 745
                    /\ lrc_index' = RebuildLrcIndex(text)
                    /\ last' = Did("stamp")
         /\ UNCHANGED <<editor_original, current_line_no, sync_lock, scroll, extra_sel,
                        position, current_audio, lrc_file, snapshots, clock, saves,
                        rebuild, playing, download, scan_state>>

(***************************************************************************)
(* save_current_lyric (lines 747-766).                                     *)
(***************************************************************************)
SaveCurrentLyric ==
    IF current_audio = NoAudio
    THEN /\ last' = Did("save")
         /\ UNCHANGED <<editor, editor_original, lrc_index, current_line_no, sync_lock,
                        scroll, extra_sel, position, current_audio, lrc_file, snapshots,
                        clock, saves, rebuild, playing, download, scan_state>>
    ELSE /\ saves < MaxSaves
         /\ LET text == editor
                files == WriteText(lrc_file, current_audio, text)
                fresh == files[current_audio]
                st == SetPlainTextBoth(Start, fresh)
            IN  /\ lrc_file' = files
                /\ snapshots' = SaveSnapshot(snapshots, LrcName(current_audio), text, clock)
                /\ saves' = saves + 1
                /\ editor_original' = fresh
                /\ editor' = fresh
                /\ lrc_index' = RebuildLrcIndex(fresh)
                /\ scroll' = st.scroll
                /\ sync_lock' = st.lock
                /\ last' = DidScroll("save", st)
         /\ UNCHANGED <<current_line_no, extra_sel, position, current_audio, clock,
                        rebuild, playing, download, scan_state>>

(***************************************************************************)
(* download_lyric_auto (lines 591-621).  lrc is what download_lrc returns  *)
(* as the lyric; failed: it raised.                                        *)
(***************************************************************************)
DownloadLyricAuto ==
    \E lrc \in Lyrics, failed \in BOOLEAN :
        IF \/ current_audio = NoAudio
           \/ Meta(current_audio).title = <<>>
           \/ failed
           \/ lrc = NoLyric
        THEN /\ last' = Did("download")
             /\ UNCHANGED <<editor, editor_original, lrc_index, current_line_no, sync_lock,
                            scroll, extra_sel, position, current_audio, lrc_file,
                            snapshots, clock, saves, rebuild, playing, download,
                   scan_state>>
        ELSE /\ saves < MaxSaves
             /\ LET m == Meta(current_audio)
                    header == BuildLrcHeader(m.title, m.artist, m.duration,
                                             IF m.fuzzy THEN TagFuzzy ELSE TagId3)
                    full_lrc == header \o <<NL>> \o lrc
                    st == SetPlainTextBoth(Start, full_lrc)
                IN  /\ editor_original' = full_lrc
                    /\ editor' = full_lrc
                    /\ lrc_index' = OnTextChanged(full_lrc, lrc_index)
                    /\ lrc_file' = WriteText(lrc_file, current_audio, full_lrc)
                    /\ snapshots' = SaveSnapshot(snapshots, LrcName(current_audio),
                                                 full_lrc, clock)
                    /\ saves' = saves + 1
                    /\ scroll' = st.scroll
                    /\ sync_lock' = st.lock
                    /\ last' = DidScroll("download", st)
             /\ UNCHANGED <<current_line_no, extra_sel, position, current_audio, clock,
                        rebuild, playing, download, scan_state>>

(***************************************************************************)
(* restore_from_snapshot_dialog (lines 910-1004): the user picks a         *)
(* snapshot of the current lyric file and loads it, overwrites the file    *)
(* with it, or cancels.                                                    *)
(***************************************************************************)
SnapsOf(store, filename) == {p \in DOMAIN store : store[p].filename = filename}

\* the button pressed writes the file and a snapshot: on_overwrite alone does
WritesFileAlways(mode) == TRUE
WritesFile(mode) == mode = "overwrite"

\* the record of a restore keeps the button pressed and the snapshot chosen
RestoreFromSnapshot ==
    \E mode \in {"load", "overwrite", "cancel"} :
        IF \/ current_audio = NoAudio
           \/ SnapsOf(snapshots, LrcName(current_audio)) = {}
           \/ mode = "cancel"
        THEN /\ last' = [mode |-> "cancel", snap |-> <<>>] @@ Did("restore")
             /\ UNCHANGED <<editor, editor_original, lrc_index, current_line_no, sync_lock,
                            scroll, extra_sel, position, current_audio, lrc_file,
                            snapshots, clock, saves, rebuild, playing, download,
                   scan_state>>
        ELSE \E p \in SnapsOf(snapshots, LrcName(current_audio)) :
             LET content == snapshots[p].content
                 st == SetPlainTextBoth(Start, content)
             IN  /\ WritesFile(mode) => saves < MaxSaves
                 /\ editor_original' = content
                 /\ editor' = content
                 /\ lrc_index' = RebuildLrcIndex(content)
                 /\ scroll' = st.scroll
                 /\ sync_lock' = st.lock
                 /\ last' = [mode |-> mode, snap |-> <<p>>] @@ DidScroll("restore", st)
                 /\ IF WritesFile(mode)
                    THEN /\ lrc_file' = WriteText(lrc_file, current_audio, content)
                         /\ snapshots' = SaveSnapshot(snapshots, LrcName(current_audio),
                                                      content, clock)
                         /\ saves' = saves + 1
                    ELSE UNCHANGED <<lrc_file, snapshots, saves>>
                 /\ UNCHANGED <<current_line_no, extra_sel, position, current_audio, clock,
                        rebuild, playing, download, scan_state>>

\* a second passes
Tick ==
    /\ clock < MaxClock
    /\ clock' = clock + 1
    /\ last' = Did("tick")
    /\ UNCHANGED <<editor, editor_original, lrc_index, current_line_no, sync_lock, scroll,
                   extra_sel, position, current_audio, lrc_file, snapshots, saves,
                   rebuild, playing, download, scan_state>>

(***************************************************************************)
(* The synchroniser and the scroll coupling, with the edits of the         *)
(* editable view.                                                          *)
(***************************************************************************)
Next ==
    \/ TypeText
    \/ OnPositionChanged
    \/ UserScroll
    \/ LoadAudio
    \/ InsertTimestampLine

Spec == Init /\ [][Next]_vars

(***************************************************************************)
(* The document operations.  Few texts are typed, and the player reports   *)
(* positions only while the index is empty.                                *)
(***************************************************************************)
OnPositionChangedEmpty == lrc_index = <<>> /\ OnPositionChanged

NextDocs ==
    \/ TypeFew
    \/ LoadAudio
    \/ InsertTimestampLine
    \/ SaveCurrentLyric
    \/ DownloadLyricAuto
    \/ RestoreFromSnapshot
    \/ Tick
    \/ OnPositionChangedEmpty

SpecDocs == Init /\ [][NextDocs]_vars

(***************************************************************************)
(* The properties checked of the synchroniser.                             *)
(***************************************************************************)
\* the offsets of an index, the smallest of them, and the place of the last
\* entry (in index order) whose offset is at most t
Offsets(index) == {index[j][1] : j \in 1..Len(index)}
MinOffset(index) == CHOOSE m \in Offsets(index) : \A o \in Offsets(index) : m <= o
AtOrBefore(index, t) == {j \in 1..Len(index) : index[j][1] <= t}
LastAtOrBefore(index, t) ==
    CHOOSE j \in AtOrBefore(index, t) : \A k \in AtOrBefore(index, t) : k <= j

NoCmds == [v \in Views |-> NoCmd]

\* C1, as the specification states it: with a non-empty index, a position
\* update whose time is below the smallest indexed offset resolves no line,
\* issues no highlight and no scroll command, and leaves current_line_no as it
\* was.  update_lrc_highlight starts its scan at idx = 0 and so resolves the
\* line of the first entry.
C1_BeforeFirstResolvesNothing ==
    (last.op = "position" /\ lrc_index # <<>> /\ position < MinOffset(lrc_index))
        => (last.resolved = NoLine /\ ~last.changed /\ last.hl = {} /\ last.cmd = NoCmds)

\* C2: a position update whose time is at or after the smallest indexed
\* offset resolves the line of the last entry, in index order, whose offset
\* is at most that time; at or after the largest offset that is the line of
\* the last entry of the index.
C2_ResolvesLastAtOrBefore ==
    (last.op = "position" /\ lrc_index # <<>> /\ position >= MinOffset(lrc_index))
        => /\ last.resolved = lrc_index[LastAtOrBefore(lrc_index, position)][2]
           /\ (\A o \in Offsets(lrc_index) : o <= position)
                  => last.resolved = lrc_index[Len(lrc_index)][2]

\* a position update between two entries: the earlier one is resolved
C2_Witness ==
    /\ last.op = "position"
    /\ Len(lrc_index) >= 2
    /\ position >= MinOffset(lrc_index)
    /\ \E o \in Offsets(lrc_index) : o > position
    /\ last.resolved = lrc_index[1][2]
    /\ last.changed

\* C4: after every edit and load the index is ordered by offset,
\* non-decreasing.
C4_IndexSorted ==
    \A j \in 1..Len(lrc_index) : \A k \in j..Len(lrc_index) :
        lrc_index[j][1] <= lrc_index[k][1]

\* an index of a text whose tags run against the order of its lines
C4_Witness ==
    /\ Len(lrc_index) >= 2
    /\ lrc_index[1][2] > lrc_index[2][2]
    /\ lrc_index[1][1] < lrc_index[2][1]

\* C3: after every operation that replaces or changes the text of the
\* editable view (typing, loading an audio file with or without a lyric file,
\* stamping, downloading, restoring a snapshot) the index is the index of the
\* text the editable view holds.
C3_IndexOfEditorText == lrc_index = RebuildLrcIndex(editor)

\* a stamp into the emptied view of an audio file loaded after a save
C3_Witness ==
    /\ last.op = "stamp"
    /\ lrc_index # <<>>
    /\ snapshots # <<>>

\* C5: current_line_no changes only in a position update that resolves a
\* line other than the one held; an update that resolves the line held
\* issues no highlight and no scroll command and changes no view; so a
\* position update repeating the time of the one before it changes nothing.
C5_NoRepeatedHighlight ==
    [][ /\ (current_line_no' # current_line_no)
            => /\ last'.op = "position"
               /\ last'.changed
               /\ last'.resolved = current_line_no'
        /\ (last'.op = "position" /\ last'.resolved = current_line_no)
            => /\ ~last'.changed
               /\ last'.hl = {}
               /\ last'.cmd = NoCmds
               /\ UNCHANGED <<current_line_no, scroll, extra_sel>>
        /\ (last.op = "position" /\ last'.op = "position" /\ position' = position)
            => /\ ~last'.changed
               /\ UNCHANGED <<current_line_no, scroll, extra_sel>> ]_vars

\* a position update that resolved the line already held
C5_Witness ==
    /\ last.op = "position"
    /\ last.resolved # NoLine
    /\ last.resolved = current_line_no
    /\ ~last.changed

\* C6: a user scroll is mirrored once: the nested notification of the
\* mirrored view is ignored, the view the user scrolled keeps the value the
\* user gave it, and the flag is down afterwards.  A position update mirrors
\* nothing, and each view it scrolled rests where the update put it.
C6_ScrollMirroredOnce ==
    /\ last.op = "scroll"
        => /\ last.mirrors = 1
           /\ last.ignored <= 1
           /\ scroll[last.src] = last.val
           /\ last.cmd[last.src] = NoCmd
           /\ ~sync_lock
    /\ last.op = "position"
        => /\ last.mirrors = 0
           /\ ~sync_lock
           /\ \A v \in Views : last.cmd[v] # NoCmd
                  => scroll[v] = ScrollValue(Docs[v], last.cmd[v][1], last.cmd[v][2])

\* a user scroll that moved the other view, whose notification was ignored
C6_Witness ==
    /\ last.op = "scroll"
    /\ last.mirrors = 1
    /\ last.ignored = 1
    /\ last.cmd[Other(last.src)] # NoCmd

\* C7: the flag is down whenever no handler runs, also after a handler whose
\* scroll adjustment raised; so no user scroll is ignored for a flag left up.
C7_FlagReleased ==
    /\ ~sync_lock
    /\ last.op = "scroll" => last.mirrors >= 1

\* a user scroll whose mirroring raised
C7_Witness ==
    /\ last.op = "scroll"
    /\ last.raised # {}
    /\ ~sync_lock

\* the edits of the editable view: typing and stamping
Edits == {"type", "stamp"}

C9_BothViewsFollow ==
    (last.op = "position" /\ last.changed /\ last.raised = {})
        => \A v \in Views : /\ extra_sel[v] = current_line_no
                            /\ last.cmd[v] = <<current_line_no, "center">>

\* C9, amended: a position update that changes current_line_no to L
\* highlights line L in each view that has a line L and, unless the
\* adjustment of the view raises, scrolls that view to L, centred; a view
\* with no line L keeps its highlight and its scroll position.
C9_ViewsWithLineFollow ==
    [][ (last'.op = "position" /\ last'.changed)
            => \A v \in Views :
                   IF current_line_no' < BlockCount(Docs[v])
                   THEN /\ extra_sel'[v] = current_line_no'
                        /\ v \in last'.hl
                        /\ IF v \in last'.raised
                           THEN last'.cmd[v] = NoCmd /\ scroll'[v] = scroll[v]
                           ELSE /\ last'.cmd[v] = <<current_line_no', "center">>
                                /\ scroll'[v] = ScrollValue(Docs[v], current_line_no',
                                                            "center")
                   ELSE /\ extra_sel'[v] = extra_sel[v]
                        /\ v \notin last'.hl
                        /\ last'.cmd[v] = NoCmd
                        /\ scroll'[v] = scroll[v] ]_vars

\* a position update to a line the original view does not have
C9_Witness ==
    /\ last.op = "position"
    /\ last.changed
    /\ last.raised = {}
    /\ current_line_no >= BlockCount(editor_original)
    /\ extra_sel["editor"] = current_line_no
    /\ extra_sel["editor_original"] # current_line_no

\* C10, as the specification states it, for a mirroring that did not raise:
\* after a user scroll of a view whose top visible line is n, the other view
\* is scrolled to line n, top-aligned, and the scrolled view is not scrolled
\* again.
C10_MirrorsTopLine ==
    (last.op = "scroll" /\ last.raised = {})
        => /\ last.cmd[Other(last.src)] = <<last.top, "top">>
           /\ last.cmd[last.src] = NoCmd
           /\ scroll[last.src] = last.val

\* C10, amended: the other view is scrolled, top-aligned, to line n or to
\* its own last line if it has no line n; if the mirroring raises the other
\* view is not scrolled.  The scrolled view is not scrolled again.
C10_MirrorsClampedTopLine ==
    last.op = "scroll"
        => LET dst == Other(last.src)
               bn == Min(last.top, BlockCount(Docs[dst]) - 1)
           IN  /\ last.cmd[last.src] = NoCmd
               /\ scroll[last.src] = last.val
               /\ IF last.raised = {}
                  THEN /\ last.cmd[dst] = <<bn, "top">>
                       /\ scroll[dst] = ScrollValue(Docs[dst], bn, "top")
                  ELSE last.cmd[dst] = NoCmd

\* a user scroll to a top line the other view does not have
C10_Witness ==
    /\ last.op = "scroll"
    /\ last.raised = {}
    /\ last.top >= BlockCount(Docs[Other(last.src)])
    /\ last.cmd[Other(last.src)] = <<BlockCount(Docs[Other(last.src)]) - 1, "top">>

\* the offset of the entry an index holds for a line, and whether the lines
\* of an index ascend with its places
OffsetOfLine(index, line) ==
    index[CHOOSE j \in 1..Len(index) : index[j][2] = line][1]
LinesAscend(index) ==
    \A j \in 1..Len(index) : \A k \in j..Len(index) : index[j][2] <= index[k][2]

\* C11, as the specification states it: of two position updates that follow
\* one another on the same index, both at or after the smallest offset and
\* the second with the later time, the second resolves no smaller line
\* number than the first.  With "[0:03]b" above "[00:01.5]a" the later time
\* resolves the upper line.
C11_LineNeverDecreases ==
    [][ (last.op = "position" /\ last'.op = "position" /\ lrc_index # <<>>
             /\ MinOffset(lrc_index) <= position /\ position < position')
            => last.resolved <= last'.resolved ]_vars

\* C11, amended: on a fixed index the offset of the resolved entry never
\* decreases as time increases, and the resolved line number never decreases
\* if the timed lines of the text are in non-decreasing order of time.
C11_OffsetNeverDecreases ==
    [][ (last.op = "position" /\ last'.op = "position" /\ lrc_index # <<>>
             /\ position < position')
            => /\ OffsetOfLine(lrc_index, last.resolved)
                      <= OffsetOfLine(lrc_index, last'.resolved)
               /\ LinesAscend(lrc_index) => last.resolved <= last'.resolved ]_vars

\* two position updates on an index whose lines run against its offsets: the
\* later time has resolved the upper line
C11_Witness ==
    /\ last.op = "position"
    /\ Len(lrc_index) >= 2
    /\ ~LinesAscend(lrc_index)
    /\ position >= lrc_index[Len(lrc_index)][1]
    /\ last.resolved = lrc_index[Len(lrc_index)][2]
    /\ last.resolved < lrc_index[1][2]
    /\ last.changed

(***************************************************************************)
(* rebuild_lrc_index and the lookup of update_lrc_highlight as functions   *)
(* of the text: the editable view holds any text of a few lines drawn from *)
(* tags of every admitted shape and from lines the grammar rejects, the    *)
(* index is still the one of an earlier text, and the index is rebuilt     *)
(* and read.                                                               *)
(***************************************************************************)
MaxParseLines == 2

ParseMinutes == {<<"0", "0">>, <<"1">>}
ParseSeconds == {<<"0", "1">>}
ParseFractions == {<<>>, <<"5">>, <<"5", "0">>, <<"5", "0", "0">>}

\* the tag [m:s] or [m:s.f]
MakeTag(m, s, f) ==
    <<"[">> \o m \o <<":">> \o s \o (IF f = <<>> THEN <<>> ELSE <<".">> \o f) \o <<"]">>

LnTwoTags == <<"[", "0", "0", ":", "0", "1", "]", "[", "0", "0", ":", "0", "5", "]", "H">>
LnLongFraction == <<"[", "0", "0", ":", "0", "1", ".", "5", "0", "0", "4", "]">>
LnShortSeconds == <<"[", "0", ":", "1", "]">>
LnNoDigits == <<"[", "a", ":", "b", "c", "]">>

\* tags whose seconds are 60 or more: [01:60], [01:75], [01:99.5], [1:75]
LongSeconds == {<<"6", "0">>, <<"7", "5">>}
LongSecondsLines ==
    {MakeTag(<<"0", "1">>, s, <<>>) : s \in LongSeconds}
        \cup {MakeTag(<<"0", "1">>, <<"9", "9">>, <<"5">>),
              MakeTag(<<"1">>, <<"7", "5">>, <<>>)}

ParseLines ==
    {MakeTag(m, s, f) : m \in ParseMinutes, s \in ParseSeconds, f \in ParseFractions}
        \cup {LnTwoTags, LnLongFraction, LnShortSeconds, LnNoDigits, LnX, <<>>}
        \cup LongSecondsLines

ParseTexts ==
    {JoinLines(ls) : ls \in UNION {[1..n -> ParseLines] : n \in 0..MaxParseLines}}

\* the index left by the text the view held before
StaleIndexes == {<<>>, RebuildLrcIndex(LnB)}

\* the times looked up, in ms
ParsePos == {500, 1500, 61000}

InitParse ==
    /\ editor \in ParseTexts
    /\ lrc_index \in StaleIndexes
    /\ editor_original = <<>>
    /\ current_line_no = NoLine
    /\ sync_lock = FALSE
    /\ scroll = [v \in Views |-> 0]
    /\ extra_sel = [v \in Views |-> NoLine]
    /\ position = 0
    /\ current_audio = NoAudio
    /\ lrc_file = InitialLrc
    /\ snapshots = <<>>
    /\ clock = 0
    /\ saves = 0
    /\ rebuild = Idle
    /\ playing = FALSE
    /\ download = NotDownloading
    /\ NoScan
    /\ last = Did("init")

\* line 800: the index is emptied before the lines are scanned
KeepIndex(index) == index
ResetIndex(index) == <<>>

\* rebuild_lrc_index() run on an index left by an earlier text
RebuildInto(index, text) == SortByKey(<<>>, ResetIndex(index) \o Collect(SplitLines(text), 1))

RebuildStep ==
    /\ lrc_index' = RebuildInto(lrc_index, editor)
    /\ last' = Did("rebuild")
    /\ UNCHANGED <<editor, editor_original, current_line_no, sync_lock, scroll, extra_sel,
                   position, current_audio, lrc_file, snapshots, clock, saves, rebuild,
                   playing, download, scan_state>>

\* lines 821-830 on the rebuilt index: the line resolved for a time
LookupStep ==
    \E p \in ParsePos :
        /\ last.op # "init"
        /\ position' = p
        /\ last' = [Did("lookup") EXCEPT
                       !.resolved = IF lrc_index = <<>> THEN NoLine
                                    ELSE ResolveLine(lrc_index, p)]
        /\ UNCHANGED <<editor, editor_original, lrc_index, current_line_no, sync_lock,
                       scroll, extra_sel, current_audio, lrc_file, snapshots, clock, saves,
                       rebuild, playing, download, scan_state>>

NextParse ==
    \/ RebuildStep
    \/ LookupStep

SpecParse == InitParse /\ [][NextParse]_vars

(***************************************************************************)
(* The properties checked of the index as a function of the text.          *)
(***************************************************************************)
\* the index has been rebuilt from the text of the editable view
Rebuilt == last.op \in {"rebuild", "lookup"}

\* the lines enumerate() counts, and whether the index holds an entry
EditorLines == SplitLines(editor)
HasEntry(index, e) == \E j \in 1..Len(index) : index[j] = e

\* C12: the index holds at most one entry per line, and the offset of a
\* line's entry is that of the leftmost tag of the line; "[00:01][00:05]H"
\* gives the single entry (1.0, line).
C12_FirstTagOnly ==
    Rebuilt =>
        /\ \A j, k \in 1..Len(lrc_index) :
               j # k => lrc_index[j][2] # lrc_index[k][2]
        /\ \A j \in 1..Len(lrc_index) :
               LET ln == EditorLines[lrc_index[j][2] + 1]
               IN  \E p \in 1..Len(ln) :
                       /\ TagAt(ln, p) = lrc_index[j][1]
                       /\ \A q \in 1..(p - 1) : TagAt(ln, q) = NoMatch
        /\ \A i \in 1..Len(EditorLines) :
               EditorLines[i] = LnTwoTags => HasEntry(lrc_index, <<1000, i - 1>>)

\* a text whose second line holds two tags, rebuilt
C12_Witness ==
    /\ last.op = "rebuild"
    /\ Len(EditorLines) = 2
    /\ EditorLines[1] = MakeTag(<<"1">>, <<"0", "1">>, <<>>)
    /\ EditorLines[2] = LnTwoTags
    /\ lrc_index = << <<1000, 1>>, <<60000 + 1000, 0>> >>

\* the number a string of decimal digits denotes
RECURSIVE Value(_)
Value(ds) ==
    IF ds = <<>> THEN 0
    ELSE 10 * Value(SubSeq(ds, 1, Len(ds) - 1)) + DigitVal(ds[Len(ds)])

\* minutes*60 + seconds + fraction in ms: one digit of fraction counts
\* tenths, two digits hundredths, three digits thousandths
TagOffset(m, s, f) ==
    Value(m) * 60000 + Value(s) * 1000
        + (IF Len(f) = 1 THEN 100 * Value(f) ELSE IF Len(f) = 2 THEN 10 * Value(f)
           ELSE Value(f))

\* C13: a line that is a tag [mm:ss], [mm:ss.f], [mm:ss.ff] or [mm:ss.fff]
\* is indexed at mm*60 + ss + fraction, in ms; so .5, .50 and .500 give the
\* same offset.
C13_OffsetOfTag ==
    Rebuilt =>
        \A i \in 1..Len(EditorLines) :
            \A m \in ParseMinutes, s \in ParseSeconds, f \in ParseFractions :
                EditorLines[i] = MakeTag(m, s, f)
                    => HasEntry(lrc_index, <<TagOffset(m, s, f), i - 1>>)

\* "[1:01.5]" above "[00:01.500]", rebuilt
C13_Witness ==
    /\ last.op = "rebuild"
    /\ Len(EditorLines) = 2
    /\ EditorLines[1] = MakeTag(<<"1">>, <<"0", "1">>, <<"5">>)
    /\ EditorLines[2] = MakeTag(<<"0", "0">>, <<"0", "1">>, <<"5", "0", "0">>)
    /\ lrc_index = << <<1500, 1>>, <<61500, 0>> >>

\* C14, as the specification states it: a line "[00:01.5004]" is indexed at
\* 1.500 s.  The tag grammar admits at most three digits between the dot
\* and the closing bracket, so the line gets no entry.
C14_LongFractionTruncated ==
    Rebuilt =>
        \A i \in 1..Len(EditorLines) :
            EditorLines[i] = LnLongFraction => HasEntry(lrc_index, <<1500, i - 1>>)

\* C15: load_audio of an audio file with no lyric file beside it leaves the
\* index and both views empty, whatever they held; the position updates
\* that follow, while the views stay empty, change no highlight.
C15_LoadWithoutLyricClears ==
    [][ /\ (last'.op = "load" /\ current_audio' \notin DOMAIN lrc_file)
            => /\ lrc_index' = <<>>
               /\ editor' = <<>>
               /\ editor_original' = <<>>
        /\ (last.op \in {"load", "position"} /\ current_audio \notin DOMAIN lrc_file
                /\ editor = <<>> /\ last'.op = "position")
            => /\ ~last'.changed
               /\ last'.hl = {}
               /\ UNCHANGED <<current_line_no, extra_sel>> ]_vars

\* a position update after such a load, a line having been active before it
C15_Witness ==
    /\ last.op = "position"
    /\ current_audio \in Audio
    /\ current_audio \notin DOMAIN lrc_file
    /\ editor = <<>>
    /\ editor_original = <<>>
    /\ lrc_index = <<>>
    /\ current_line_no # NoLine
    /\ position > 0

\* C16: a position update on an empty index, and so one on a text with no
\* timed line, changes neither current_line_no nor a highlight nor a scroll
\* position nor the flag.
C16_EmptyIndexNoOp ==
    [][ (last'.op = "position" /\ (lrc_index = <<>> \/ RebuildLrcIndex(editor) = <<>>))
            => /\ last'.resolved = NoLine
               /\ ~last'.changed
               /\ last'.hl = {}
               /\ last'.cmd = NoCmds
               /\ UNCHANGED <<current_line_no, extra_sel, scroll, sync_lock>> ]_vars

\* a position update after an edit that removed every timed line, among
\* them the active one, whose number the text no longer reaches
C16_Witness ==
    /\ last.op = "position"
    /\ lrc_index = <<>>
    /\ editor # <<>>
    /\ current_audio = NoAudio
    /\ current_line_no >= BlockCount(editor)
    /\ extra_sel["editor"] = current_line_no

\* lines with no well-formed tag: seconds of one digit, letters for digits,
\* no tag at all
Malformed == {LnShortSeconds, LnNoDigits, LnX}

\* C17: a line with no well-formed tag gets no entry, and the index is the
\* one the text would have with that line blank.
C17_MalformedLineSkipped ==
    Rebuilt =>
        \A i \in 1..Len(EditorLines) :
            EditorLines[i] \in Malformed
                => /\ \A j \in 1..Len(lrc_index) : lrc_index[j][2] # i - 1
                   /\ lrc_index
                          = RebuildLrcIndex(JoinLines([EditorLines EXCEPT ![i] = <<>>]))

\* "[0:1]" above a tag, rebuilt: the tag alone is indexed, at its own line
C17_Witness ==
    /\ last.op = "rebuild"
    /\ Len(EditorLines) = 2
    /\ EditorLines[1] = LnShortSeconds
    /\ EditorLines[2] = MakeTag(<<"0", "0">>, <<"0", "1">>, <<>>)
    /\ lrc_index = << <<1000, 1>> >>

\* C18: a rebuild yields the index of the text whatever the index was
\* before, so a rebuild of a rebuilt index leaves it as it is.
C18_RebuildIdempotent ==
    [][ last'.op = "rebuild"
            => /\ lrc_index' = RebuildLrcIndex(editor)
               /\ Rebuilt => lrc_index' = lrc_index ]_vars

\* a rebuild after a rebuild and a lookup; no entry of the earlier text is
\* left in the index
C18_Witness ==
    /\ last.op = "rebuild"
    /\ position > 0
    /\ Len(lrc_index) = 2
    /\ \A j \in 1..Len(lrc_index) : lrc_index[j] # RebuildLrcIndex(LnB)[1]

\* the greatest line among the entries of an index at an offset
MaxLineAt(index, t) ==
    CHOOSE l \in {index[j][2] : j \in {k \in 1..Len(index) : index[k][1] = t}} :
        \A j \in 1..Len(index) : index[j][1] = t => index[j][2] <= l

\* C20: entries of equal offset stand in ascending order of line number, and
\* a time equal to such an offset resolves the greatest of their lines.
C20_TiesInLineOrder ==
    Rebuilt =>
        /\ \A j, k \in 1..Len(lrc_index) :
               (j < k /\ lrc_index[j][1] = lrc_index[k][1])
                   => lrc_index[j][2] < lrc_index[k][2]
        /\ (last.op = "lookup" /\ position \in Offsets(lrc_index))
               => last.resolved = MaxLineAt(lrc_index, position)

\* "[00:01.5]" above "[00:01.50]", looked up at 1.5 s
C20_Witness ==
    /\ last.op = "lookup"
    /\ position = 1500
    /\ lrc_index = << <<1500, 0>>, <<1500, 1>> >>
    /\ last.resolved = 1

\* C22: a tag whose seconds are 60 or more is indexed, at minutes*60 +
\* seconds (+ fraction); "[01:75]" is indexed at 135 s.
C22_LongSecondsIndexed ==
    Rebuilt =>
        \A i \in 1..Len(EditorLines) :
            /\ EditorLines[i] = MakeTag(<<"0", "1">>, <<"6", "0">>, <<>>)
                   => HasEntry(lrc_index, <<(1 * 60 + 60) * 1000, i - 1>>)
            /\ EditorLines[i] = MakeTag(<<"0", "1">>, <<"7", "5">>, <<>>)
                   => HasEntry(lrc_index, <<135 * 1000, i - 1>>)
            /\ EditorLines[i] = MakeTag(<<"1">>, <<"7", "5">>, <<>>)
                   => HasEntry(lrc_index, <<135 * 1000, i - 1>>)
            /\ EditorLines[i] = MakeTag(<<"0", "1">>, <<"9", "9">>, <<"5">>)
                   => HasEntry(lrc_index, <<(1 * 60 + 99) * 1000 + 500, i - 1>>)

\* "[01:75]" above "[01:60]", rebuilt: 135 s and 120 s
C22_Witness ==
    /\ last.op = "rebuild"
    /\ Len(EditorLines) = 2
    /\ EditorLines[1] = MakeTag(<<"0", "1">>, <<"7", "5">>, <<>>)
    /\ EditorLines[2] = MakeTag(<<"0", "1">>, <<"6", "0">>, <<>>)
    /\ lrc_index = << <<120000, 1>>, <<135000, 0>> >>

(***************************************************************************)
(* The choice of a song (downloader.py, lines 124-143).  An Optional value *)
(* is a sequence: <<>> for None, <<v>> for v.  A song is what              *)
(* search_songs returns of it: its id (0: none) and its duration in ms     *)
(* (NoDuration: none).  The local duration is a float of seconds; it is    *)
(* given here in tenths of a millisecond, NoDuration: None.                *)
(***************************************************************************)
MaxResults == 2

None == <<>>
Some(v) == <<v>>

SongPool == {[id |-> 1, duration_ms |-> 1], [id |-> 2, duration_ms |-> 2],
             [id |-> 3, duration_ms |-> NoDuration], [id |-> 0, duration_ms |-> 3]}

\* what search_songs returns
ResultLists == UNION {[1..n -> SongPool] : n \in 0..MaxResults}

LocalDurations == {NoDuration, 0, 15, 19, 20, 31}

\* the lyric get_lyric_by_id returns
FoundLyrics == {None, Some(LnC)}

Abs(n) == IF n < 0 THEN -n ELSE n

\* int(local_duration_sec * 1000)
TargetMs(local) == local \div 10

\* x.get("duration_ms") or 0
DurationOrZero(x) == IF x.duration_ms = NoDuration THEN 0 ELSE x.duration_ms

\* the key of results.sort (line 132)
PickKeySigned(x, target_ms) == DurationOrZero(x) - target_ms
PickKey(x, target_ms) == Abs(DurationOrZero(x) - target_ms)

\* auto_pick_song, given what search_songs returns
AutoPickSong(results, local) ==
    IF results = <<>> THEN None
    ELSE IF local = NoDuration THEN Some(results[1])
    ELSE LET target_ms == TargetMs(local)
             keyed == [i \in 1..Len(results) |->
                          <<PickKey(results[i], target_ms), results[i]>>]
         IN  Some(SortByKey(<<>>, keyed)[1][2])

\* download_lrc, given what search_songs and get_lyric_by_id return
DownloadLrc(results, local, lyric) ==
    LET chosen == AutoPickSong(results, local)
    IN  IF chosen = None THEN <<None, None>>
        ELSE <<IF chosen[1].id # 0 THEN lyric ELSE None, chosen>>

PickSong ==
    \E results \in ResultLists, local \in LocalDurations :
        /\ last' = [op |-> "pick", results |-> results, local |-> local,
                    chosen |-> AutoPickSong(results, local)]
        /\ UNCHANGED <<editor, editor_original, lrc_index, current_line_no, sync_lock,
                       scroll, extra_sel, position, current_audio, lrc_file, snapshots,
                       clock, saves, rebuild, playing, download, scan_state>>

DownloadLrcStep ==
    \E results \in ResultLists, local \in LocalDurations, lyric \in FoundLyrics :
        /\ last' = [op |-> "download_lrc", results |-> results, local |-> local,
                    lyric |-> lyric, ret |-> DownloadLrc(results, local, lyric)]
        /\ UNCHANGED <<editor, editor_original, lrc_index, current_line_no, sync_lock,
                       scroll, extra_sel, position, current_audio, lrc_file, snapshots,
                       clock, saves, rebuild, playing, download, scan_state>>

NextPick ==
    \/ PickSong
    \/ DownloadLrcStep

SpecPick == Init /\ [][NextPick]_vars

\* the place of the first of the least of a sequence of distances
FirstLeast(ds) ==
    CHOOSE j \in 1..Len(ds) :
        /\ \A k \in 1..Len(ds) : ds[j] <= ds[k]
        /\ \A k \in 1..(j - 1) : ds[k] > ds[j]

\* what the pick must be, ds being the distances of the results
PicksBy(ds) ==
    /\ last.op = "pick"
        => /\ last.results = <<>> => last.chosen = None
           /\ (last.results # <<>> /\ last.local = NoDuration)
                  => last.chosen = Some(last.results[1])
           /\ (last.results # <<>> /\ last.local # NoDuration)
                  => last.chosen = Some(last.results[FirstLeast(ds)])
    /\ last.op = "download_lrc"
        => /\ (last.ret = <<None, None>>) <=> (last.results = <<>>)
           /\ last.results # <<>> => last.ret[2] # None

\* the distances of the results from the local duration, in tenths of a ms,
\* and from the local duration cut to whole ms, in ms
ExactDistances ==
    [i \in 1..Len(last.results) |->
        Abs(10 * DurationOrZero(last.results[i]) - last.local)]
TruncatedDistances ==
    [i \in 1..Len(last.results) |->
        Abs(DurationOrZero(last.results[i]) - last.local \div 10)]

StepTexts == {<<>>, LnC, JoinLines(<<LnB, LnA>>), JoinLines(<<LnX, LnB>>)}

\* the event loop takes the next event: at any time, or when no handler runs
EventLoopAlways(r) == TRUE
EventLoopIdle(r) == r.pc = "idle"

\* an edit of the editable view; textChanged enters rebuild_lrc_index, which
\* reads the text and empties the index (lines 799-800)
EditBegin ==
    \E t \in StepTexts :
        /\ EventLoopIdle(rebuild)
        /\ t # editor
        /\ editor' = t
        /\ rebuild' = [pc |-> "scan", i |-> 0, prev |-> lrc_index]
        /\ lrc_index' = <<>>
        /\ LET st == Relayout(Start, DocsWith(editor_original, t), "editor")
           IN  /\ scroll' = st.scroll
               /\ sync_lock' = st.lock
               /\ last' = DidScroll("type", st)
        /\ UNCHANGED <<editor_original, current_line_no, extra_sel, position,
                       current_audio, lrc_file, snapshots, clock, saves, playing, download,
                   scan_state>>

\* one pass of the loop of lines 801-816
ScanLine ==
    /\ rebuild.pc = "scan"
    /\ rebuild.i < Len(SplitLines(editor))
    /\ LET line == SplitLines(editor)[rebuild.i + 1]
       IN  lrc_index' = IF FirstTag(line) = NoMatch THEN lrc_index
                        ELSE Append(lrc_index, <<FirstTag(line), rebuild.i>>)
    /\ rebuild' = [rebuild EXCEPT !.i = @ + 1]
    /\ last' = Did("scan")
    /\ UNCHANGED <<editor, editor_original, current_line_no, sync_lock, scroll, extra_sel,
                   position, current_audio, lrc_file, snapshots, clock, saves, playing,
                   download, scan_state>>

\* line 817, and the return of rebuild_lrc_index
SortIndex ==
    /\ rebuild.pc = "scan"
    /\ rebuild.i = Len(SplitLines(editor))
    /\ lrc_index' = SortByKey(<<>>, lrc_index)
    /\ rebuild' = Idle
    /\ last' = Did("sort")
    /\ UNCHANGED <<editor, editor_original, current_line_no, sync_lock, scroll, extra_sel,
                   position, current_audio, lrc_file, snapshots, clock, saves, playing,
                   download, scan_state>>

\* positionChanged and valueChanged, handed over by the event loop
PositionEvent == EventLoopIdle(rebuild) /\ OnPositionChanged
ScrollEvent == EventLoopIdle(rebuild) /\ UserScroll

NextSteps ==
    \/ EditBegin
    \/ ScanLine
    \/ SortIndex
    \/ PositionEvent
    \/ ScrollEvent

SpecSteps == Init /\ [][NextSteps]_vars

\* the line a position update resolves on an index
Resolved(index, t) == IF index = <<>> THEN NoLine ELSE ResolveLine(index, t)

\* C21: a position update reads a complete index, the one of the text of
\* the editable view or, were a rebuild under way, the one the rebuild
\* found, and resolves its line on it; and a rebuild that has returned has
\* left the index of the text.
C21_LookupSeesCompleteIndex ==
    [][ /\ last'.op = "position"
            => /\ rebuild.pc = "idle" => lrc_index = RebuildLrcIndex(editor)
               /\ lrc_index \in {rebuild.prev, RebuildLrcIndex(editor)}
               /\ last'.resolved = Resolved(lrc_index, position')
        /\ rebuild'.pc = "idle" => lrc_index' = RebuildLrcIndex(editor') ]_vars

\* a position update after the rebuild for "[0:03]b" above "[00:01.5]a",
\* whose entries the sort has exchanged, and after a scroll
C21_Witness ==
    /\ last.op = "position"
    /\ editor = JoinLines(<<LnB, LnA>>)
    /\ lrc_index = << <<1500, 1>>, <<3000, 0>> >>
    /\ position = 2000
    /\ last.resolved = 1
    /\ scroll["editor"] > 0

(***************************************************************************)
(* download_lyric_auto for any metadata and any outcome of the download.   *)
(* extract_metadata returns the title and the artist as the file's tags    *)
(* give them (downloader.py, lines 58-72); a title taken from the file     *)
(* name (fuzzy) has had its bracketed parts removed (line 79), a title or  *)
(* artist read from a tag is any string, and the title is empty only if    *)
(* the file name gave none.  download_lrc raises, or returns the lyric     *)
(* and the song chosen.                                                    *)
(***************************************************************************)
MaxDownloads == 1

TitleTagged == <<"[", "1", ":", "2", "3", "]">>
Titles == {<<>>, <<"T">>, TitleTagged}
Artists == {<<>>, <<"A">>, TitleTagged}
Durations == {NoDuration, 61500}

Metas ==
    {m \in [title : Titles, artist : Artists, duration : Durations, fuzzy : BOOLEAN] :
        /\ m.fuzzy => FirstTag(m.title) = NoMatch
        /\ m.title = <<>> => m.fuzzy}

\* what the search and the lyric request return, and what download_lrc does
FoundSongs == {<<>>, <<[id |-> 1, duration_ms |-> 1]>>, <<[id |-> 0, duration_ms |-> 3]>>}
FoundBodies == {None, Some(<<>>), Some(JoinLines(<<LnC, LnA>>))}
Raised == <<"raised">>
Outcomes ==
    {Raised} \cup {DownloadLrc(r, NoDuration, l) : r \in FoundSongs, l \in FoundBodies}

\* an empty lyric taken for a lyric
NoLyricIsNone(out) == out[1] = None \/ out[2] = None

\* "not lrc or not chosen" of line 609, for what download_lrc returned
NoLyricObtained(out) == out[1] = None \/ out[1] = Some(<<>>) \/ out[2] = None

\* the header of line 613 for the metadata m
HeaderOf(m) ==
    BuildLrcHeader(m.title, m.artist, m.duration, IF m.fuzzy THEN TagFuzzy ELSE TagId3)

\* the early returns of lines 592-611
ReturnsEarly(audio, m, out) ==
    \/ audio = NoAudio
    \/ m.title = <<>>
    \/ out = Raised
    \/ NoLyricObtained(out)

\* download_lyric_auto on an audio file whose metadata are m, the download
\* ending in out
DownloadWithMeta ==
    \E m \in Metas, out \in Outcomes :
        /\ last' = [op |-> "download", audio |-> current_audio, meta |-> m, out |-> out]
        /\ IF ReturnsEarly(current_audio, m, out)
           THEN UNCHANGED <<editor, editor_original, lrc_index, sync_lock, scroll,
                            lrc_file, snapshots, saves>>
           ELSE /\ saves < MaxDownloads
                /\ LET full_lrc == HeaderOf(m) \o <<NL>> \o out[1][1]
                       st == SetPlainTextBoth(Start, full_lrc)
                   IN  /\ editor_original' = full_lrc
                       /\ editor' = full_lrc
                       /\ lrc_index' = OnTextChanged(full_lrc, lrc_index)
                       /\ lrc_file' = WriteText(lrc_file, current_audio, full_lrc)
                       /\ snapshots' = SaveSnapshot(snapshots, LrcName(current_audio),
                                                    full_lrc, clock)
                       /\ saves' = saves + 1
                       /\ scroll' = st.scroll
                       /\ sync_lock' = st.lock
        /\ UNCHANGED <<current_line_no, extra_sel, position, current_audio, clock,
                       rebuild, playing, download, scan_state>>

NextHeader ==
    \/ LoadAudio
    \/ DownloadWithMeta

SpecHeader == Init /\ [][NextHeader]_vars

\* a download has run and has obtained a lyric
Obtained ==
    /\ last.op = "download"
    /\ last.audio # NoAudio
    /\ last.meta.title # <<>>
    /\ last.out # Raised
    /\ last.out[1] \notin {None, Some(<<>>)}
    /\ last.out[2] # None

\* the entries of an index with their lines counted n further down
ShiftLines(index, n) == [j \in 1..Len(index) |-> <<index[j][1], index[j][2] + n>>]

\* C23, as the specification states it: after a download that obtained a
\* lyric, no line of the header is indexed, whatever the title, the artist
\* and the length; the index is the one of the lyric body, at the lines the
\* body has below the header.  A title or an artist that holds a tag, as
\* "[1:23]", makes its header line a timed line.
C23_HeaderNeverIndexed ==
    Obtained
        => LET n == Len(SplitLines(HeaderOf(last.meta)))
           IN  /\ \A j \in 1..Len(lrc_index) : lrc_index[j][2] >= n
               /\ lrc_index = ShiftLines(RebuildLrcIndex(last.out[1][1]), n)

(***************************************************************************)
(* insert_timestamp_line as a function of the text, the caret and the      *)
(* player's position: an audio file is selected, the editable view holds   *)
(* a text with its index, the player stands at a position of a short or a  *)
(* long recording, and the caret is anywhere in the text.                  *)
(***************************************************************************)
MaxStampBlocks == 2

StampTexts == {<<>>, LnX, LnC, JoinLines(<<LnX, LnB>>)}

\* positions in ms: the start, 0.999 s, 1 min 1.5 s, 99 min 59.999 s, 100 min
StampPos == {0, 999, 61500, 5999999, 6000000}

InitStamp ==
    /\ editor \in StampTexts
    /\ lrc_index = RebuildLrcIndex(editor)
    /\ position \in StampPos
    /\ current_audio \in Audio
    /\ editor_original = <<>>
    /\ current_line_no = NoLine
    /\ sync_lock = FALSE
    /\ scroll = [v \in Views |-> 0]
    /\ extra_sel = [v \in Views |-> NoLine]
    /\ lrc_file = InitialLrc
    /\ snapshots = <<>>
    /\ clock = 0
    /\ saves = 0
    /\ rebuild = Idle
    /\ playing = FALSE
    /\ download = NotDownloading
    /\ NoScan
    /\ last = Did("init")

\* insert_timestamp_line with the caret behind k characters; the record
\* keeps the caret, the text it was put in and the tag
StampAt ==
    \E k \in 0..Len(editor) :
        /\ current_audio # NoAudio
        /\ BlockCount(editor) <= MaxStampBlocks
        /\ LET tag == StampTag(position)
               text == InsertAtCaret(editor, k, tag)
           IN  /\ editor' = text
               /\ lrc_index' = RebuildLrcIndex(text)
               /\ last' = [op |-> "stamp", caret |-> k, before |-> editor, tag |-> tag]
        /\ UNCHANGED <<editor_original, current_line_no, sync_lock, scroll, extra_sel,
                       position, current_audio, lrc_file, snapshots, clock, saves,
                       rebuild, playing, download, scan_state>>

NextStamp == StampAt

SpecStamp == InitStamp /\ [][NextStamp]_vars

\* the line the caret is in, and what that line holds before the caret
CaretLine(text, k) == Cardinality({i \in 1..k : text[i] = NL})
LineStart(text, k) ==
    IF \E i \in 1..k : text[i] = NL
    THEN CHOOSE i \in 1..k : text[i] = NL /\ \A j \in (i + 1)..k : text[j] # NL
    ELSE 0
BeforeCaret(text, k) == SubSeq(text, LineStart(text, k) + 1, k)

\* C24, as the specification states it: for every position p the tag
\* insert_timestamp_line inserts is one the rebuild recognises, with
\* seconds in 0..59 and milliseconds in 0..999, and if the caret's line holds
\* no tag before the caret the rebuilt index has the entry (p, that line).
\* From 100 minutes on the tag has three digits of minutes, "[100:00.000]",
\* which the tag grammar rejects.
C24_StampRoundTrip ==
    last.op = "stamp"
        => LET n == Len(last.tag)
           IN  /\ FirstTag(last.tag) = position
               /\ NumAt(last.tag, n - 6, 2) \in 0..59
               /\ NumAt(last.tag, n - 3, 3) \in 0..999
               /\ last.tag[n - 4] = "."
               /\ last.tag[n - 7] = ":"
               /\ FirstTag(BeforeCaret(last.before, last.caret)) = NoMatch
                      => HasEntry(lrc_index,
                                  <<position, CaretLine(last.before, last.caret)>>)

(***************************************************************************)
(* The player's button (toggle_play, lines 712-718) beside the other       *)
(* handlers that ask for an audio file.                                    *)
(***************************************************************************)
\* the test of line 713
PlayReturnsNever(audio) == FALSE
PlayReturns(audio) == audio = NoAudio

TogglePlay ==
    /\ last' = Did("toggle_play")
    /\ playing' = IF PlayReturns(current_audio) THEN playing ELSE ~playing
    /\ UNCHANGED <<editor, editor_original, lrc_index, current_line_no, sync_lock, scroll,
                   extra_sel, position, current_audio, lrc_file, snapshots, clock, saves,
                   rebuild, download, scan_state>>

NextPlay ==
    \/ TypeFew
    \/ LoadAudio
    \/ TogglePlay
    \/ InsertTimestampLine
    \/ SaveCurrentLyric
    \/ DownloadLyricAuto

SpecPlay == Init /\ [][NextPlay]_vars

(***************************************************************************)
(* The properties checked of the document operations.                      *)
(***************************************************************************)
\* store differs from old in the one snapshot of the lyric file of audio
\* file a taken at time now, which holds content
RecordedOne(old, store, a, content, now) ==
    \E key \in DOMAIN store :
        /\ store[key] = [timestamp |-> now, filename |-> LrcName(a), content |-> content]
        /\ DOMAIN store = DOMAIN old \cup {key}
        /\ \A k \in DOMAIN old \ {key} : store[k] = old[k]

\* C25: save_current_lyric with an audio file selected leaves the text the
\* editable view held in the lyric file, in both views and in one snapshot
\* recorded by the one call of save_snapshot, and the index is the one of
\* that text; the other lyric files and snapshots are as they were.
C25_SaveStoresEditorText ==
    [][ (last'.op = "save" /\ current_audio # NoAudio)
            => /\ current_audio \in DOMAIN lrc_file'
               /\ lrc_file'[current_audio] = editor
               /\ \A a \in DOMAIN lrc_file' \ {current_audio} :
                      a \in DOMAIN lrc_file /\ lrc_file'[a] = lrc_file[a]
               /\ editor_original' = editor
               /\ editor' = editor
               /\ lrc_index' = RebuildLrcIndex(editor)
               /\ saves' = saves + 1
               /\ RecordedOne(snapshots, snapshots', current_audio, editor, clock) ]_vars

\* the first save for an audio file that had no lyric file, of a typed text
\* the original view did not hold
C25_Witness ==
    /\ last.op = "save"
    /\ current_audio = "b"
    /\ editor = LnC
    /\ editor_original = LnC
    /\ lrc_file = ("b" :> LnC) @@ InitialLrc
    /\ lrc_index = << <<1000, 0>> >>
    /\ saves = 1
    /\ Cardinality(DOMAIN snapshots) = 1

\* C26: a download_lyric_auto that obtains no lyric (no audio file selected,
\* no title, the download raises, no song found, the song chosen has no
\* lyric or an empty one) leaves the texts of both views, the index, the
\* lyric files and the snapshots as they were.
C26_FailedDownloadChangesNothing ==
    [][ (/\ last'.op = "download"
         /\ \/ current_audio = NoAudio
            \/ last'.meta.title = <<>>
            \/ last'.out = Raised
            \/ last'.out[2] = None
            \/ last'.out[1] \in {None, Some(<<>>)})
            => UNCHANGED <<editor, editor_original, lrc_index, lrc_file, snapshots>> ]_vars

\* a download for the audio file "a", selected with its lyric in both views,
\* for which a song was found that has no lyric
C26_Witness ==
    /\ last.op = "download"
    /\ last.audio = "a"
    /\ last.meta.title = <<"T">>
    /\ last.out # Raised
    /\ last.out[2] # None
    /\ last.out[1] = None
    /\ editor = InitialLrc["a"]
    /\ editor_original = editor
    /\ lrc_index = RebuildLrcIndex(editor)
    /\ lrc_file = InitialLrc
    /\ snapshots = <<>>

\* C27: a restore with "load into editor" puts the content of the chosen
\* snapshot in both views and rebuilds the index from it, and leaves the
\* lyric files and the snapshots as they were; a restore with "overwrite"
\* does the same to the views and the index, writes the content to the
\* lyric file and records a snapshot of it; a restore in which nothing is
\* chosen leaves all of them as they were.
C27_LoadKeepsFileOverwriteWrites ==
    [][ last'.op = "restore"
            => IF last'.snap = <<>>
               THEN UNCHANGED <<editor, editor_original, lrc_index, lrc_file, snapshots,
                                saves>>
               ELSE LET p == last'.snap[1]
                        content == snapshots[p].content
                    IN  /\ p \in SnapsOf(snapshots, LrcName(current_audio))
                        /\ editor_original' = content
                        /\ editor' = content
                        /\ lrc_index' = RebuildLrcIndex(content)
                        /\ last'.mode = "load"
                               => UNCHANGED <<lrc_file, snapshots, saves>>
                        /\ last'.mode # "load"
                               => /\ last'.mode = "overwrite"
                                  /\ lrc_file' = (current_audio :> content) @@ lrc_file
                                  /\ saves' = saves + 1
                                  /\ RecordedOne(snapshots, snapshots', current_audio,
                                                 content, clock) ]_vars

\* a snapshot loaded into the editor over a text typed after it was taken,
\* the lyric file holding yet another text
C27_Witness ==
    /\ last.op = "restore"
    /\ last.mode = "load"
    /\ last.snap # <<>>
    /\ current_audio = "a"
    /\ editor = snapshots[last.snap[1]].content
    /\ editor_original = editor
    /\ lrc_file["a"] # editor
    /\ Cardinality(DOMAIN snapshots) = 2

\* C28: with no audio file selected, toggle_play, insert_timestamp_line,
\* save_current_lyric and download_lyric_auto leave the editable text, the
\* index, the playing state, the lyric files and the snapshots as they
\* were.
C28_NoAudioNoOps ==
    [][ (current_audio = NoAudio /\ last'.op \in {"toggle_play", "stamp", "save", "download"})
            => UNCHANGED <<editor, lrc_index, playing, lrc_file, snapshots>> ]_vars

\* the play button pressed with no audio file selected, a timed line typed
C28_Witness ==
    /\ last.op = "toggle_play"
    /\ current_audio = NoAudio
    /\ editor = LnC
    /\ lrc_index = << <<1000, 0>> >>
    /\ ~playing
    /\ lrc_file = InitialLrc
    /\ snapshots = <<>>

\* C29, as the specification states it: every call of save_snapshot adds a
\* snapshot to the store and destroys none, whatever the clock shows.  The
\* file of a snapshot is named by the stem of the lyric file and the time
\* to the second, so a second snapshot of a lyric file within one second
\* is written over the first.
C29_SnapshotsNeverLost ==
    [][ saves' = saves + 1
            => /\ Cardinality(DOMAIN snapshots') = Cardinality(DOMAIN snapshots) + 1
               /\ \A k \in DOMAIN snapshots :
                      k \in DOMAIN snapshots' /\ snapshots'[k] = snapshots[k] ]_vars

\* C30, as the specification states it: the first position update after
\* load_audio has put another text in the views, if it resolves a line,
\* highlights that line in both views and scrolls to it, also when the line
\* has the number of the line that was active before.  load_audio leaves
\* _current_line_no as it was, so update_lrc_highlight takes the line for
\* the one already shown and does nothing.
C30_FirstUpdateHighlightsNewDocument ==
    [][ (/\ last.op = "load"
         /\ last.fresh
         /\ last'.op = "position"
         /\ last'.resolved # NoLine)
            => /\ last'.changed
               /\ last'.hl = Views
               /\ \A v \in Views : extra_sel'[v] = last'.resolved ]_vars

(***************************************************************************)
(* download_lyric_auto with the events that QApplication.processEvents()   *)
(* (line 602) delivers.  The handler reads the metadata of the audio file  *)
(* selected (line 595), lets the pending events run, among them a          *)
(* selection of another file in the tree (on_tree_selection_changed, then  *)
(* load_audio), downloads the lyric for the title it read, and writes it   *)
(* to self.current_lrc_path as that stands by then (lines 617-619).        *)
(***************************************************************************)
\* lines 591-601: the tests, and the metadata of the audio file selected
DownloadBegin ==
    /\ download.pc = "idle"
    /\ IF current_audio = NoAudio \/ Meta(current_audio).title = <<>>
       THEN /\ last' = [at |-> current_audio, wrote |-> FALSE] @@ Did("download")
            /\ UNCHANGED download
       ELSE /\ download' = [pc |-> "events", audio |-> current_audio,
                            meta |-> Meta(current_audio)]
            /\ last' = Did("download_begin")
    /\ UNCHANGED <<editor, editor_original, lrc_index, current_line_no, sync_lock, scroll,
                   extra_sel, position, current_audio, lrc_file, snapshots, clock, saves,
                   rebuild, playing, scan_state>>

\* the user selects an audio file in the tree: the event is handled when no
\* handler runs, or inside processEvents() if it was pending by then
SelectAudio == download.pc \in {"idle", "events"} /\ LoadAudio

\* lines 603-621, after processEvents() has returned
DownloadFinish ==
    \E lrc \in Lyrics, failed \in BOOLEAN :
        /\ download.pc = "events"
        /\ download' = NotDownloading
        /\ IF failed \/ lrc = NoLyric
           THEN /\ last' = [at |-> download.audio, wrote |-> FALSE] @@ Did("download")
                /\ UNCHANGED <<editor, editor_original, lrc_index, sync_lock, scroll,
                               lrc_file, snapshots, saves>>
           ELSE /\ saves < MaxSaves
                /\ LET m == download.meta
                       header == BuildLrcHeader(m.title, m.artist, m.duration,
                                                IF m.fuzzy THEN TagFuzzy ELSE TagId3)
                       full_lrc == header \o <<NL>> \o lrc
                       st == SetPlainTextBoth(Start, full_lrc)
                   IN  /\ editor_original' = full_lrc
                       /\ editor' = full_lrc
                       /\ lrc_index' = OnTextChanged(full_lrc, lrc_index)
                       /\ lrc_file' = WriteText(lrc_file, current_audio, full_lrc)
                       /\ snapshots' = SaveSnapshot(snapshots, LrcName(current_audio),
                                                    full_lrc, clock)
                       /\ saves' = saves + 1
                       /\ scroll' = st.scroll
                       /\ sync_lock' = st.lock
                       /\ last' = [at |-> download.audio, wrote |-> TRUE]
                                      @@ DidScroll("download", st)
        /\ UNCHANGED <<current_line_no, extra_sel, position, current_audio, clock,
                       rebuild, playing, scan_state>>

NextRace ==
    \/ SelectAudio
    \/ DownloadBegin
    \/ DownloadFinish
    \/ TypeFew

SpecRace == Init /\ [][NextRace]_vars

\* C31, as the specification states it: the lyric a download fetched for
\* the audio file selected when download_lyric_auto was invoked is written
\* to the lyric file of that audio file and to no other, also when another
\* file is selected inside processEvents().  The handler writes to
\* current_lrc_path as load_audio of the other file has left it.
C31_LyricWrittenToInvokedFile ==
    [][ (last'.op = "download" /\ last'.wrote)
            => /\ last'.at \in DOMAIN lrc_file'
               /\ lrc_file'[last'.at] = editor'
               /\ \A a \in Audio \ {last'.at} :
                      /\ a \in DOMAIN lrc_file' <=> a \in DOMAIN lrc_file
                      /\ a \in DOMAIN lrc_file => lrc_file'[a] = lrc_file[a] ]_vars

(***************************************************************************)
(* Scanning the folder (lines 25-35, 500-511, 532-545).  scan_folder       *)
(* starts a ScanThread for the current folder and keeps it in self.thread; *)
(* the thread lists the audio files under its root and emits them; the     *)
(* emission is queued to the window's thread, whose event loop calls       *)
(* on_scan_result with the results in the order they were emitted.         *)
(***************************************************************************)
MaxScans == 3

Folders == {"p", "q"}

\* find_audio_files(root): the audio files under the folder
FindAudioFiles(root) == IF root = "p" THEN <<"p/a">> ELSE <<"q/a", "q/b">>

\* after construction: no folder, or the folder of the last session (line 354)
InitScan ==
    /\ editor = <<>>
    /\ editor_original = <<>>
    /\ lrc_index = <<>>
    /\ current_line_no = NoLine
    /\ sync_lock = FALSE
    /\ scroll = [v \in Views |-> 0]
    /\ extra_sel = [v \in Views |-> NoLine]
    /\ position = 0
    /\ current_audio = NoAudio
    /\ lrc_file = InitialLrc
    /\ snapshots = <<>>
    /\ clock = 0
    /\ saves = 0
    /\ rebuild = Idle
    /\ playing = FALSE
    /\ download = NotDownloading
    /\ current_dir \in {NoDir} \cup Folders
    /\ threads = <<>>
    /\ pending = <<>>
    /\ status_message = NoMessage
    /\ progress = FALSE
    /\ aborted = FALSE
    /\ last = Did("init")

\* QThread.isRunning() of the thread self.thread refers to
ThreadRunning == threads # <<>> /\ threads[Len(threads)].st # "finished"

\* lines 536-541: self.thread is replaced by a new thread, which is started.
\* The thread it referred to loses its only reference; where that thread is
\* still running, the QThread object is destroyed while its thread runs:
\* the process is aborted, or the thread goes on.
StartScan ==
    /\ progress' = TRUE
    /\ threads' = Append(threads, [root |-> current_dir', st |-> "running"])
    /\ aborted' \in (IF ThreadRunning THEN BOOLEAN ELSE {FALSE})
    /\ UNCHANGED pending

\* the rest of the window
ScanLeaves ==
    UNCHANGED <<editor, editor_original, lrc_index, current_line_no, sync_lock, scroll,
                extra_sel, position, current_audio, lrc_file, snapshots, clock, saves,
                rebuild, playing, download>>

\* lines 500-511, for a folder chosen in the dialog
ChooseFolder ==
    \E directory \in Folders :
        /\ ~aborted
        /\ Len(threads) < MaxScans
        /\ current_dir' = directory
        /\ status_message' = [kind |-> "selected", n |-> 0]
        /\ StartScan
        /\ last' = Did("choose_folder")
        /\ ScanLeaves

\* lines 532-541
ScanFolder ==
    /\ ~aborted
    /\ Len(threads) < MaxScans
    /\ last' = Did("scan_folder")
    /\ IF current_dir = NoDir
       THEN UNCHANGED scan_state
       ELSE /\ UNCHANGED <<current_dir, status_message>>
            /\ StartScan
    /\ ScanLeaves

\* lines 33-35: the thread emits the files it found
ThreadRun ==
    \E i \in DOMAIN threads :
        /\ ~aborted
        /\ threads[i].st = "running"
        /\ threads' = [threads EXCEPT ![i].st = "emitted"]
        /\ pending' = Append(pending, [thread |-> i,
                                       files |-> FindAudioFiles(threads[i].root)])
        /\ UNCHANGED <<current_dir, status_message, progress, aborted, last>>
        /\ ScanLeaves

\* run has returned: finished is emitted (line 540)
ThreadFinished ==
    \E i \in DOMAIN threads :
        /\ ~aborted
        /\ threads[i].st = "emitted"
        /\ threads' = [threads EXCEPT ![i].st = "finished"]
        /\ progress' = FALSE
        /\ UNCHANGED <<current_dir, pending, status_message, aborted, last>>
        /\ ScanLeaves

\* lines 543-545, for the result emitted first
OnScanResult ==
    /\ ~aborted
    /\ pending # <<>>
    /\ status_message' = [kind |-> "found", n |-> Len(Head(pending).files)]
    /\ pending' = Tail(pending)
    /\ last' = [thread |-> Head(pending).thread] @@ Did("scan_result")
    /\ UNCHANGED <<current_dir, threads, progress, aborted>>
    /\ ScanLeaves

NextScan ==
    \/ ChooseFolder
    \/ ScanFolder
    \/ ThreadRun
    \/ ThreadFinished
    \/ OnScanResult

SpecScan == InitScan /\ [][NextScan]_vars

\* every scan thread has finished and every result has been delivered
ScansSettled ==
    /\ ~aborted
    /\ threads # <<>>
    /\ pending = <<>>
    /\ \A i \in DOMAIN threads : threads[i].st = "finished"

\* C32, as the specification states it: once every scan thread has finished
\* and delivered its result, the status bar shows the number of audio files
\* of the scan started last, the one of the current folder, in whatever
\* order the threads emitted their results.  on_scan_result shows the count
\* of the result it is called with and does not look at the thread it is of.
C32_CountOfLatestScan ==
    ScansSettled =>
        /\ threads[Len(threads)].root = current_dir
        /\ status_message = [kind |-> "found", n |-> Len(FindAudioFiles(current_dir))]

====
